---- MODULE Spec2Model ----
(***************************************************************************)
(* Vocabulary store of the Cantonese tutor: the `words` table, the word    *)
(* matcher (findWordInDatabase, in its two copies), and the handlers that  *)
(* write the table (addNewWord, updateWordProgress, removeWord, the seed   *)
(* and add-new-words scripts).                                             *)
(*                                                                         *)
(* A JavaScript string is a sequence of one-character strings.  A date is  *)
(* a day number: ISO dates YYYY-MM-DD compare as strings the way the day   *)
(* numbers compare.                                                        *)
(***************************************************************************)
EXTENDS Integers, Sequences, FiniteSets, TLC

VARIABLES words, today, last

vars == <<words, today, last>>

----------------------------------------------------------------------------
(* Bounds of the model *)

\* the clock is stopped on this day
MaxDay == 2
\* a batch that would raise a level above this one is not submitted
MaxLevel == 3
\* entries in one updateWordProgress call
MaxBatch == 2
\* rows of the table drawn by the matcher specification
MaxStored == 2

----------------------------------------------------------------------------
(* JavaScript and SQL values *)

\* `undefined`: an optional field that was not supplied
Undefined == <<"undefined">>
\* a value that is truthy and not a string
NotAString == <<"number">>
\* SQL NULL in the proficiency_level column (number | null)
Null == -1

\* `null`: what findWordInDatabase returns when no word is found
NotFound == <<"null">>

IsString(v) == v \notin {Undefined, NotAString, NotFound}
\* JavaScript truthiness: undefined, null and '' are falsy
Truthy(v) == v \notin {Undefined, NotFound, <<>>}

\* \s of a JavaScript regular expression, and what String.trim removes
IsSpace(c) == c \in {" ", "\t"}

Min(S) == CHOOSE x \in S : \A y \in S : x <= y
Max(S) == CHOOSE x \in S : \A y \in S : x >= y

\* String.prototype.trim
JsTrim(s) ==
    LET keep == {i \in 1..Len(s) : ~IsSpace(s[i])}
    IN  IF keep = {} THEN <<>> ELSE SubSeq(s, Min(keep), Max(keep))

\* SQL TRIM(X): removes spaces (0x20) only, from both ends
SqlTrim(s) ==
    LET keep == {i \in 1..Len(s) : s[i] # " "}
    IN  IF keep = {} THEN <<>> ELSE SubSeq(s, Min(keep), Max(keep))

LowerChar(c) ==
    CASE c = "A" -> "a"
      [] c = "B" -> "b"
      [] c = "E" -> "e"
      [] c = "J" -> "j"
      [] OTHER -> c

\* String.prototype.toLowerCase, and SQL LOWER(X) (the same on ASCII)
ToLowerCase(s) == [i \in 1..Len(s) |-> LowerChar(s[i])]

\* first index >= i of s that holds no whitespace, Len(s)+1 when there is none
SkipSpaces(s, i) ==
    LET rest == {j \in i..Len(s) : ~IsSpace(s[j])}
    IN  IF rest = {} THEN Len(s) + 1 ELSE Min(rest)

\* s.replace(/\s*\/\s*/g, '/') from index i on
RECURSIVE ReplaceSlashFrom(_, _)
ReplaceSlashFrom(s, i) ==
    IF i > Len(s) THEN <<>>
    ELSE LET j == SkipSpaces(s, i)
         IN  IF j <= Len(s) /\ s[j] = "/"
             THEN <<"/">> \o ReplaceSlashFrom(s, SkipSpaces(s, j + 1))
             ELSE <<s[i]>> \o ReplaceSlashFrom(s, i + 1)

\* s.replace(/\s+/g, ' ') from index i on
RECURSIVE CollapseSpacesFrom(_, _)
CollapseSpacesFrom(s, i) ==
    IF i > Len(s) THEN <<>>
    ELSE IF IsSpace(s[i])
         THEN <<" ">> \o CollapseSpacesFrom(s, SkipSpaces(s, i))
         ELSE <<s[i]>> \o CollapseSpacesFrom(s, i + 1)

\* the chain of normalizeWord without its guard (the tools.ts copy)
ToolsNormalizeWord(word) ==
    JsTrim(CollapseSpacesFrom(ReplaceSlashFrom(ToLowerCase(JsTrim(word)), 1), 1))

\* a normalizeWord that forgets the slash rule
NormalizeWord_NoSlash(word) ==
    IF ~Truthy(word) \/ ~IsString(word) THEN <<>>
    ELSE JsTrim(CollapseSpacesFrom(ToLowerCase(JsTrim(word)), 1))

\* normalizeWord of toolUtils.ts
NormalizeWord(word) ==
    IF ~Truthy(word) \/ ~IsString(word) THEN <<>>
    ELSE ToolsNormalizeWord(word)

\* s.split('/') from index i on: the parts between the slashes, empty ones kept
RECURSIVE SplitSlashFrom(_, _)
SplitSlashFrom(s, i) ==
    LET slashes == {j \in i..Len(s) : s[j] = "/"}
    IN  IF slashes = {} THEN <<SubSeq(s, i, Len(s))>>
        ELSE <<SubSeq(s, i, Min(slashes) - 1)>> \o SplitSlashFrom(s, Min(slashes) + 1)

\* normalizedCantonese.split('/').map(part => part.trim())
JyutpingParts(normalizedCantonese) ==
    LET parts == SplitSlashFrom(normalizedCantonese, 1)
    IN  [i \in 1..Len(parts) |-> JsTrim(parts[i])]

----------------------------------------------------------------------------
(* The inputs the handlers are given *)

\* the english argument of addNewWord
KeyPool == {<<"a">>, <<"B">>}
\* the cantonese_jyutping argument of addNewWord
TransPool == {<<"x">>}

\* the entries of a batch: a search by english, a search by cantonese_jyutping
\* alone, a search that finds nothing, and an entry with neither field (the
\* last two never read their success flag)
Entries ==
    {[english |-> <<"a">>, cantonese_jyutping |-> Undefined, success |-> ok] :
        ok \in BOOLEAN}
    \cup {[english |-> Undefined, cantonese_jyutping |-> <<"x">>, success |-> ok] :
        ok \in BOOLEAN}
    \cup {[english |-> <<"q">>, cantonese_jyutping |-> Undefined, success |-> TRUE],
          [english |-> Undefined, cantonese_jyutping |-> Undefined,
           success |-> FALSE]}

Batches == UNION {[1..n -> Entries] : n \in 0..MaxBatch}

\* the english argument of removeWord
RemovePool == {<<"a">>, <<"b">>, <<"y">>, <<"x">>, <<>>}

CsvHeaded ==
    <<<<"E", "n", "g", "l", "i", "s", "h", ",", "J", "y", "u", "t", "p", "i", "n", "g">>,
      <<"a", ",", "x">>,
      <<>>,
      <<"B", " ", ",", " ", "\"", "a", " ", "/", " ", "y", "\"">>,
      <<"a", ",", "a", " ", "/", " ", "y">>,
      <<"B">>>>
CsvBare ==
    <<<<"B", ",", "x">>,
      <<"a", ",">>,
      <<" ", "a", ",", "x">>>>
CsvFiles == {CsvHeaded, CsvBare, <<>>}

\* the mode argument of getWordsForPractice: optional, one of the two modes
S_general_review == <<"general_review">>
S_srs_review == <<"srs_review">>
Modes == {Undefined, S_srs_review, S_general_review}

\* the keys, translations and search terms of the matcher specification
MatchKeys == {<<"a">>, <<"A">>, <<"a", " ", " ", "b">>, <<"a", " ", "b">>,
             <<"a", "/", "b">>, <<>>}
MatchTrans == {<<"x">>, <<"a", " ", "/", " ", "b">>, <<"b", "/">>,
              <<"a">>, <<>>}
MatchTerms ==
    MatchKeys \cup MatchTrans
    \cup {<<" ", "a">>, <<"\t", "a">>, <<"b">>, <<" ">>,
          <<"A", " ", "/", " ", "B">>}
    \cup {Undefined, NotAString}

\* the strings of the pools: TLC evaluates the string functions once on each
Strings ==
    KeyPool \cup TransPool \cup RemovePool \cup {<<"q">>, <<"a", " ", "/", " ", "y">>}
    \cup MatchKeys \cup (MatchTerms \ {Undefined, NotAString})

SqlLowerTrimOf == [s \in Strings |-> ToLowerCase(SqlTrim(s))]
ToolsNormalizeWordOf == [s \in Strings |-> ToolsNormalizeWord(s)]
NormalizeWordOf == [s \in Strings |-> NormalizeWord(s)]
JyutpingPartsOf == [s \in Strings |-> JyutpingParts(NormalizeWord(s))]

\* LOWER(TRIM(X))
SqlLowerTrim(s) ==
    IF s \in Strings THEN SqlLowerTrimOf[s] ELSE ToLowerCase(SqlTrim(s))
\* normalizeWord(word) of tools.ts
ToolsNormalized(word) ==
    IF word \in Strings THEN ToolsNormalizeWordOf[word] ELSE ToolsNormalizeWord(word)
\* normalizeWord(word) of toolUtils.ts
Normalized(word) ==
    IF word \in Strings THEN NormalizeWordOf[word] ELSE NormalizeWord(word)
\* normalizeWord(word).split('/').map(part => part.trim())
NormalizedParts(word) ==
    IF word \in Strings THEN JyutpingPartsOf[word]
    ELSE JyutpingParts(NormalizeWord(word))

\* LOWER(TRIM(column)) = LOWER(TRIM(?))
SqlLowerTrimEq(column, param) == SqlLowerTrim(column) = SqlLowerTrim(param)

----------------------------------------------------------------------------
(* The word matcher.  allWords is the table in the order the scan of the   *)
(* statement that decides the call returns its rows: SQL leaves that order *)
(* open, so the handlers take it as an input.  No statement of a handler   *)
(* moves a row it goes on to scan, so one order serves the whole call.     *)

\* index of the first row a scan returns among the rows `hits`, 0 when none
FirstRow(hits) == IF hits = {} THEN 0 ELSE Min(hits)

\* SELECT english FROM words WHERE LOWER(TRIM(english)) = LOWER(TRIM(?)), .get()
ExactEnglishMatch(allWords, searchTerm) ==
    FirstRow({i \in 1..Len(allWords) : SqlLowerTrimEq(allWords[i].english, searchTerm)})

\* SELECT english FROM words WHERE LOWER(TRIM(cantonese_jyutping)) = LOWER(TRIM(?)), .get()
ExactCantoneseMatch(allWords, searchTerm) ==
    FirstRow({i \in 1..Len(allWords) :
                 SqlLowerTrimEq(allWords[i].cantonese_jyutping, searchTerm)})

\* the body of the loop of the tools.ts copy: normalized key or translation
ToolsFuzzyMatch(word, normalizedSearch) ==
    \/ ToolsNormalized(word.english) = normalizedSearch
    \/ ToolsNormalized(word.cantonese_jyutping) = normalizedSearch

\* the loop body without the split into slash parts
FuzzyMatch_NoParts(word, normalizedSearch) ==
    \/ Normalized(word.english) = normalizedSearch
    \/ Normalized(word.cantonese_jyutping) = normalizedSearch

\* the body of the loop of toolUtils.ts: does this row return?
FuzzyMatch(word, normalizedSearch) ==
    LET normalizedEnglish == Normalized(word.english)
        normalizedCantonese == Normalized(word.cantonese_jyutping)
        jyutpingParts == NormalizedParts(word.cantonese_jyutping)
    IN  \/ normalizedEnglish = normalizedSearch
        \/ normalizedCantonese = normalizedSearch
        \/ \E p \in 1..Len(jyutpingParts) : jyutpingParts[p] = normalizedSearch

\* findWordInDatabase without the test of the normalized search term
FindWordInDatabase_NoEmptyGuard(allWords, searchTerm) ==
    IF ~Truthy(searchTerm) \/ ~IsString(searchTerm) THEN NotFound
    ELSE LET normalizedSearch == Normalized(searchTerm)
             exactEnglishMatch == ExactEnglishMatch(allWords, searchTerm)
             exactCantoneseMatch == ExactCantoneseMatch(allWords, searchTerm)
             fuzzy == FirstRow({i \in 1..Len(allWords) :
                                   FuzzyMatch(allWords[i], normalizedSearch)})
         IN  IF exactEnglishMatch # 0 THEN allWords[exactEnglishMatch].english
             ELSE IF exactCantoneseMatch # 0
                  THEN allWords[exactCantoneseMatch].english
             ELSE IF fuzzy # 0 THEN allWords[fuzzy].english
             ELSE NotFound

\* findWordInDatabase of toolUtils.ts (used by tools/updateWordProgress.ts)
FindWordInDatabase(allWords, searchTerm) ==
    IF ~Truthy(searchTerm) \/ ~IsString(searchTerm) THEN NotFound
    ELSE LET normalizedSearch == Normalized(searchTerm)
         IN  IF ~Truthy(normalizedSearch) THEN NotFound
             ELSE LET exactEnglishMatch == ExactEnglishMatch(allWords, searchTerm)
                      exactCantoneseMatch == ExactCantoneseMatch(allWords, searchTerm)
                      fuzzy == FirstRow({i \in 1..Len(allWords) :
                                            FuzzyMatch(allWords[i], normalizedSearch)})
                  IN  IF exactEnglishMatch # 0
                      THEN allWords[exactEnglishMatch].english
                      ELSE IF exactCantoneseMatch # 0
                           THEN allWords[exactCantoneseMatch].english
                      ELSE IF fuzzy # 0 THEN allWords[fuzzy].english
                      ELSE NotFound

\* findWordInDatabase of chat/tools.ts (used by removeWord): no guards, no parts
ToolsFindWordInDatabase(allWords, searchTerm) ==
    LET normalizedSearch == ToolsNormalized(searchTerm)
        exactEnglishMatch == ExactEnglishMatch(allWords, searchTerm)
        exactCantoneseMatch == ExactCantoneseMatch(allWords, searchTerm)
        fuzzy == FirstRow({i \in 1..Len(allWords) :
                              ToolsFuzzyMatch(allWords[i], normalizedSearch)})
    IN  IF exactEnglishMatch # 0 THEN allWords[exactEnglishMatch].english
        ELSE IF exactCantoneseMatch # 0 THEN allWords[exactCantoneseMatch].english
        ELSE IF fuzzy # 0 THEN allWords[fuzzy].english
        ELSE NotFound

----------------------------------------------------------------------------
(* The words table and its statements *)

Row(english, cantonese_jyutping, date, level) ==
    [english |-> english, cantonese_jyutping |-> cantonese_jyutping,
     last_practiced_date |-> date, proficiency_level |-> level]

\* CHECK(proficiency_level >= 1): a NULL level passes a CHECK
CheckLevel(level) == level = Null \/ level >= 1

\* SELECT ... FROM words WHERE english = ? : the rows with exactly this key
RowsOf(table, english) == {r \in table : r.english = english}

\* INSERT INTO words (...) VALUES (?, ?, ?, 1) without the schema's constraints
InsertWord_Unchecked(table, english, cantonese_jyutping, date) ==
    [code |-> "ok",
     table |-> table \cup {Row(english, cantonese_jyutping, date, 1)}]

\* an INSERT that writes level 0 into a table without the CHECK
InsertWord_LevelZero(table, english, cantonese_jyutping, date) ==
    IF RowsOf(table, english) # {}
    THEN [code |-> "SQLITE_CONSTRAINT_PRIMARYKEY", table |-> table]
    ELSE [code |-> "ok",
          table |-> table \cup {Row(english, cantonese_jyutping, date, 0)}]

\* an INSERT that stores the key in lower case
InsertWord_Lowered(table, english, cantonese_jyutping, date) ==
    IF RowsOf(table, ToLowerCase(english)) # {}
    THEN [code |-> "SQLITE_CONSTRAINT_PRIMARYKEY", table |-> table]
    ELSE [code |-> "ok",
          table |-> table \cup {Row(ToLowerCase(english), cantonese_jyutping,
                                     date, 1)}]

\* INSERT INTO words (...) VALUES (?, ?, ?, 1) under the schema of initializeSchema
InsertWord(table, english, cantonese_jyutping, date) ==
    IF cantonese_jyutping \in {Undefined, NotFound}
    THEN [code |-> "SQLITE_CONSTRAINT_NOTNULL", table |-> table]
    ELSE IF RowsOf(table, english) # {}
    THEN [code |-> "SQLITE_CONSTRAINT_PRIMARYKEY", table |-> table]
    ELSE IF ~CheckLevel(1)
    THEN [code |-> "SQLITE_CONSTRAINT_CHECK", table |-> table]
    ELSE [code |-> "ok",
          table |-> table \cup {Row(english, cantonese_jyutping, date, 1)}]

\* an UPDATE that sets the level and leaves the date
UpdateStmt_KeepDate(table, date, level, english) ==
    IF RowsOf(table, english) # {} /\ ~CheckLevel(level)
    THEN [code |-> "SQLITE_CONSTRAINT_CHECK", table |-> table]
    ELSE [code |-> "ok",
          table |-> {IF r.english = english
                     THEN [r EXCEPT !.proficiency_level = level]
                     ELSE r : r \in table}]

\* an UPDATE without its WHERE
UpdateStmt_NoWhere(table, date, level, english) ==
    IF table # {} /\ ~CheckLevel(level)
    THEN [code |-> "SQLITE_CONSTRAINT_CHECK", table |-> table]
    ELSE [code |-> "ok",
          table |-> {[r EXCEPT !.last_practiced_date = date,
                               !.proficiency_level = level] : r \in table}]

\* UPDATE words SET last_practiced_date = ?, proficiency_level = ? WHERE english = ?
UpdateStmt(table, date, level, english) ==
    IF RowsOf(table, english) # {} /\ ~CheckLevel(level)
    THEN [code |-> "SQLITE_CONSTRAINT_CHECK", table |-> table]
    ELSE [code |-> "ok",
          table |-> {IF r.english = english
                     THEN [r EXCEPT !.last_practiced_date = date,
                                    !.proficiency_level = level]
                     ELSE r : r \in table}]

\* a DELETE without its WHERE
DeleteStmt_All(table, english) == {}

\* DELETE FROM words WHERE english = ?
DeleteStmt(table, english) == {r \in table : r.english # english}

\* the orders in which a scan can return the rows of the table
RECURSIVE ScanOrders(_)
ScanOrders(table) ==
    IF table = {} THEN {<<>>}
    ELSE UNION {{<<r>> \o rest : rest \in ScanOrders(table \ {r})} : r \in table}

\* the rows of `table` in the order in which `scan` lists them
AllWords(table, scan) ==
    [i \in 1..Len(scan) |-> CHOOSE r \in table : r.english = scan[i].english]

----------------------------------------------------------------------------
(* updateWordProgress (tools/updateWordProgress.ts) *)

\* currentWord.proficiency_level ?? 1
Coalesce(level) == IF level = Null THEN 1 ELSE level

\* the level step with the decrement unfloored
NewProficiency_NoFloor(currentProficiency, success) ==
    IF success THEN currentProficiency + 1 ELSE currentProficiency - 1

\* the level step that leaves a failure where it is
NewProficiency_NoDecrement(currentProficiency, success) ==
    IF success THEN currentProficiency + 1 ELSE currentProficiency

\* success ? currentProficiency + 1 : Math.max(currentProficiency - 1, 1)
NewProficiency(currentProficiency, success) ==
    IF success THEN currentProficiency + 1
    ELSE IF currentProficiency - 1 >= 1 THEN currentProficiency - 1 ELSE 1

\* english || cantonese_jyutping
SearchTermOf(entry) ==
    IF Truthy(entry.english) THEN entry.english ELSE entry.cantonese_jyutping

\* a continue that pushes nothing on failedWords
Failed_NoPush(table, searchTerm, reason) ==
    [table |-> table, updated |-> <<>>, failed |-> <<>>]

\* failedWords.push({ english: searchTerm, reason }); continue
Failed(table, searchTerm, reason) ==
    [table |-> table, updated |-> <<>>,
     failed |-> <<[english |-> searchTerm, reason |-> reason]>>]

\* the element of a one-element set: The({F(x) : x \in {e}}) is F(e) with e
\* evaluated once
The(S) == CHOOSE x \in S : TRUE

\* the loop body from the test of actualEnglish on
ApplyEntry(table, searchTerm, success, date, actualEnglish) ==
    IF ~Truthy(actualEnglish)
    THEN Failed(table, searchTerm, "not_found")
    ELSE IF RowsOf(table, actualEnglish) = {}
    THEN Failed(table, searchTerm, "retrieval_failed")
    ELSE
    LET currentWord == The(RowsOf(table, actualEnglish))
        currentProficiency == Coalesce(currentWord.proficiency_level)
        newProficiency == NewProficiency(currentProficiency, success)
    IN  The({IF run.code # "ok"
             THEN Failed(table, searchTerm, run.code)
             ELSE LET updatedWord == The(RowsOf(run.table, actualEnglish))
                  IN  [table |-> run.table,
                       updated |-> <<[updatedWord EXCEPT !.proficiency_level =
                                         Coalesce(updatedWord.proficiency_level)]>>,
                       failed |-> <<>>] :
             run \in {UpdateStmt(table, date, newProficiency, actualEnglish)}})

\* a loop body without the test of searchTerm
ProcessEntry_NoValidation(table, entry, scan, date) ==
    The({ApplyEntry(table, SearchTermOf(entry), entry.success, date, actualEnglish) :
         actualEnglish \in
             {FindWordInDatabase(AllWords(table, scan), SearchTermOf(entry))}})

\* one pass of the loop body: the table after it, and what it pushed on
\* updatedWords and failedWords
ProcessEntry(table, entry, scan, date) ==
    LET searchTerm == SearchTermOf(entry)
    IN  IF ~Truthy(searchTerm) \/ ~IsString(searchTerm)
        THEN Failed(table, searchTerm, "invalid")
        ELSE The({ApplyEntry(table, searchTerm, entry.success, date, actualEnglish) :
                  actualEnglish \in
                      {FindWordInDatabase(AllWords(table, scan), searchTerm)}})

\* a loop that runs every entry on the table the batch started from
RECURSIVE ProcessWords_FromStart(_, _, _, _, _, _)
ProcessWords_FromStart(table, batch, scan, date, i, done) ==
    IF i > Len(batch) THEN done
    ELSE The({ProcessWords_FromStart(table, batch, scan, date, i + 1,
                                     [table |-> step.table,
                                      updatedWords |-> done.updatedWords \o step.updated,
                                      failedWords |-> done.failedWords \o step.failed,
                                      steps |-> Append(done.steps, step)]) :
              step \in {ProcessEntry(table, batch[i], scan, date)}})

\* a loop that gives up at the first entry that fails
RECURSIVE ProcessWords_StopAtFailure(_, _, _, _, _, _)
ProcessWords_StopAtFailure(table, batch, scan, date, i, done) ==
    IF i > Len(batch) \/ done.failedWords # <<>> THEN done
    ELSE The({ProcessWords_StopAtFailure(step.table, batch, scan, date, i + 1,
                           [table |-> step.table,
                            updatedWords |-> done.updatedWords \o step.updated,
                            failedWords |-> done.failedWords \o step.failed,
                            steps |-> Append(done.steps, step)]) :
              step \in {ProcessEntry(table, batch[i], scan, date)}})

\* the loop over the batch from entry i on; steps lists what each pass did
RECURSIVE ProcessWords(_, _, _, _, _, _)
ProcessWords(table, batch, scan, date, i, done) ==
    IF i > Len(batch) THEN done
    ELSE The({ProcessWords(step.table, batch, scan, date, i + 1,
                           [table |-> step.table,
                            updatedWords |-> done.updatedWords \o step.updated,
                            failedWords |-> done.failedWords \o step.failed,
                            steps |-> Append(done.steps, step)]) :
              step \in {ProcessEntry(table, batch[i], scan, date)}})

\* an execute that reports success when no entry failed
UpdateWordProgressExecute_SuccessIfNoneFailed(table, batch, scan, date) ==
    The({[table |-> done.table,
          steps |-> done.steps,
          ret |-> [success |-> Len(done.failedWords) = 0,
                   updatedWords |-> done.updatedWords,
                   failedWords |-> IF Len(done.failedWords) > 0
                                   THEN done.failedWords
                                   ELSE Undefined]] :
         done \in {ProcessWords(table, batch, scan, date, 1,
                                [table |-> table, updatedWords |-> <<>>,
                                 failedWords |-> <<>>, steps |-> <<>>])}})

\* execute({ words }): the table it leaves and the value it returns
UpdateWordProgressExecute(table, batch, scan, date) ==
    IF Len(batch) = 0
    THEN [table |-> table,
          steps |-> <<>>,
          ret |-> [success |-> FALSE, updatedWords |-> <<>>, failedWords |-> <<>>]]
    ELSE The({[table |-> done.table,
               steps |-> done.steps,
               ret |-> [success |-> Len(done.updatedWords) > 0,
                        updatedWords |-> done.updatedWords,
                        failedWords |-> IF Len(done.failedWords) > 0
                                        THEN done.failedWords
                                        ELSE Undefined]] :
              done \in {ProcessWords(table, batch, scan, date, 1,
                                     [table |-> table, updatedWords |-> <<>>,
                                      failedWords |-> <<>>, steps |-> <<>>])}})

----------------------------------------------------------------------------
(* addNewWord and removeWord (chat/tools.ts) *)

\* execute({ english, cantonese_jyutping }) of addNewWord
AddNewWordExecute(table, english, cantonese_jyutping, date) ==
    LET run == InsertWord(table, english, cantonese_jyutping, date)
    IN  IF run.code = "ok"
        THEN [table |-> run.table, threw |-> FALSE,
              ret |-> [success |-> TRUE,
                       word |-> <<Row(english, cantonese_jyutping, date, 1)>>]]
        ELSE IF run.code = "SQLITE_CONSTRAINT_PRIMARYKEY"
        THEN [table |-> run.table, threw |-> FALSE,
              ret |-> [success |-> FALSE, word |-> <<>>]]
        ELSE [table |-> run.table, threw |-> TRUE,
              ret |-> [success |-> FALSE, word |-> <<>>]]

\* execute({ english }) of removeWord
RemoveWordExecute(table, english, scan) ==
    LET actualEnglish == ToolsFindWordInDatabase(AllWords(table, scan), english)
    IN  IF ~Truthy(actualEnglish)
        THEN [table |-> table, actualEnglish |-> actualEnglish,
              ret |-> [success |-> FALSE, removedWord |-> <<>>]]
        ELSE IF RowsOf(table, actualEnglish) = {}
        THEN [table |-> table, actualEnglish |-> actualEnglish,
              ret |-> [success |-> FALSE, removedWord |-> <<>>]]
        ELSE LET existingWord == CHOOSE r \in RowsOf(table, actualEnglish) : TRUE
             IN  [table |-> DeleteStmt(table, actualEnglish),
                  actualEnglish |-> actualEnglish,
                  ret |-> [success |-> TRUE,
                           removedWord |->
                               <<[english |-> existingWord.english,
                                  cantonese_jyutping |->
                                      existingWord.cantonese_jyutping]>>]]

----------------------------------------------------------------------------
(* The CSV scripts (scripts/seed-db-from-csv.ts, scripts/add-new-words.ts).  *)
(* A CSV file is the sequence of its lines, csvContent.split('\n').          *)

\* parseCSVLine from index i on
RECURSIVE ParseCSVFrom(_, _, _, _, _)
ParseCSVFrom(line, i, current, inQuotes, result) ==
    IF i > Len(line) THEN Append(result, JsTrim(current))
    ELSE LET char == line[i]
         IN  IF char = "\""
             THEN IF inQuotes /\ i + 1 <= Len(line) /\ line[i + 1] = "\""
                  THEN ParseCSVFrom(line, i + 2, Append(current, "\""), inQuotes, result)
                  ELSE ParseCSVFrom(line, i + 1, current, ~inQuotes, result)
             ELSE IF char = "," /\ ~inQuotes
             THEN ParseCSVFrom(line, i + 1, <<>>, inQuotes,
                               Append(result, JsTrim(current)))
             ELSE ParseCSVFrom(line, i + 1, Append(current, char), inQuotes, result)

ParseCSVLine(line) == ParseCSVFrom(line, 1, <<>>, FALSE, <<>>)

\* fields[k] of an array: undefined past its end
Field(fields, k) == IF k >= 0 /\ k < Len(fields) THEN fields[k + 1] ELSE Undefined

\* fields[k]?.trim()
FieldTrim(fields, k) ==
    IF Field(fields, k) = Undefined THEN Undefined ELSE JsTrim(Field(fields, k))

\* the insert of one row in a try/catch that skips the row on any error
RECURSIVE InsertRows(_, _, _, _)
InsertRows(table, rows, i, date) ==
    IF i > Len(rows) THEN table
    ELSE InsertRows(InsertWord(table, rows[i].english, rows[i].jyutping, date).table,
                    rows, i + 1, date)

\* the [english, cantonese_jyutping] of the data lines that have both
SeedRows(dataLines) ==
    LET parsed == [i \in 1..Len(dataLines) |-> ParseCSVLine(dataLines[i])]
        kept == SelectSeq(parsed, LAMBDA f : Truthy(Field(f, 0)) /\ Truthy(Field(f, 1)))
    IN  [i \in 1..Len(kept) |-> [english |-> Field(kept[i], 0),
                                 jyutping |-> Field(kept[i], 1)]]

\* seedDatabaseFromCSV: the table is dropped and filled from the file
SeedDatabaseFromCSV(csv, date) ==
    LET lines == SelectSeq(csv, LAMBDA line : JsTrim(line) # <<>>)
    IN  IF Len(lines) = 0 THEN {}
        ELSE InsertRows({}, SeedRows(Tail(lines)), 1, date)

S_english == <<"e", "n", "g", "l", "i", "s", "h">>
S_english_jyutping == <<"e", "n", "g", "l", "i", "s", "h", ",", "j", "y", "u", "t", "p", "i", "n", "g">>
S_jyutping == <<"j", "y", "u", "t", "p", "i", "n", "g">>
S_cantonese_jyutping == <<"c", "a", "n", "t", "o", "n", "e", "s", "e", "_", "j", "y", "u", "t", "p", "i", "n", "g">>

\* the last index i of headerFields whose lowercased field is one of `names`, -1 if none
HeaderIndex(headerFields, names) ==
    LET hits == {i \in 0..(Len(headerFields) - 1) :
                    ToLowerCase(headerFields[i + 1]) \in names}
    IN  IF hits = {} THEN -1 ELSE Max(hits)

\* main of add-new-words.ts: the table after the run
AddNewWordsMain(table, csv, date) ==
    LET trimmed == [i \in 1..Len(csv) |-> JsTrim(csv[i])]
        lines == SelectSeq(trimmed, LAMBDA line : Len(line) > 0)
    IN  IF Len(lines) = 0 THEN table
        ELSE
        LET headerFields == ParseCSVLine(lines[1])
            foundEnglish == HeaderIndex(headerFields, {S_english, S_english_jyutping})
            foundJyutping == HeaderIndex(headerFields,
                                         {S_jyutping, S_cantonese_jyutping})
            hasHeader == foundEnglish # -1 \/ foundJyutping # -1
            assumed == foundEnglish = -1 \/ foundJyutping = -1
            englishIndex == IF assumed THEN 0 ELSE foundEnglish
            jyutpingIndex == IF assumed THEN 1 ELSE foundJyutping
        IN  IF assumed /\ Len(headerFields) < 2 THEN table
            ELSE
            LET existingEnglishSet == {JsTrim(ToLowerCase(w.english)) : w \in table}
                dataLines == IF hasHeader THEN Tail(lines) ELSE lines
                parsed == [i \in 1..Len(dataLines) |-> ParseCSVLine(dataLines[i])]
                Keep(fields) ==
                    /\ Len(fields) >= 2
                    /\ Truthy(FieldTrim(fields, englishIndex))
                    /\ Truthy(FieldTrim(fields, jyutpingIndex))
                    /\ ToLowerCase(FieldTrim(fields, englishIndex))
                           \notin existingEnglishSet
                kept == SelectSeq(parsed, Keep)
                newWords == [i \in 1..Len(kept) |->
                                [english |-> FieldTrim(kept[i], englishIndex),
                                 jyutping |-> FieldTrim(kept[i], jyutpingIndex)]]
            IN  InsertRows(table, newWords, 1, date)

----------------------------------------------------------------------------
(* The read queries (chat/tools.ts, tools/getRandomWords.ts,                *)
(* tools/getLeastProficentWord.ts) and the date script.  `order` is the     *)
(* order in which the statement meets the rows before it sorts them: the    *)
(* scan order, or the order RANDOM() gives them.                            *)

\* ORDER BY key ASC over rows whose keys are keys[1..n]: rows with equal keys
\* stay in the order they came in
OrderBy(rows, keys) ==
    LET n == Len(rows)
        place(i) == 1 + Cardinality({j \in 1..n :
                                        \/ keys[j] < keys[i]
                                        \/ keys[j] = keys[i] /\ j < i})
    IN  [p \in 1..n |-> rows[CHOOSE i \in 1..n : place(i) = p]]

\* a WHERE that lets every row pass
WhereDue_All(rows, date) == rows

\* the rows of a sequence that pass a WHERE test, in their order
RECURSIVE WhereDue(_, _)
WhereDue(rows, date) ==
    IF rows = <<>> THEN <<>>
    ELSE IF Head(rows).last_practiced_date <= date
         THEN <<Head(rows)>> \o WhereDue(Tail(rows), date)
         ELSE WhereDue(Tail(rows), date)

\* a statement without its ORDER BY: the rows as the scan met them
OrderByDate_Unsorted(rows) == rows

\* ORDER BY last_practiced_date ASC
OrderByDate(rows) ==
    OrderBy(rows, [i \in 1..Len(rows) |-> rows[i].last_practiced_date])

\* an ORDER BY that looks at the level alone
OrderByLevelThenDate_LevelOnly(rows) ==
    OrderBy(rows, [i \in 1..Len(rows) |-> Coalesce(rows[i].proficiency_level)])

\* ORDER BY COALESCE(proficiency_level, 1) ASC, last_practiced_date ASC
OrderByLevelThenDate(rows) ==
    The({OrderBy(byDate, [i \in 1..Len(byDate) |->
                             Coalesce(byDate[i].proficiency_level)]) :
         byDate \in {OrderByDate(rows)}})

\* a LIMIT that drops the last row it is given
Limit_DropLast(rows, n) == SubSeq(rows, 1, Len(rows) - 1)

\* LIMIT n
Limit(rows, n) == SubSeq(rows, 1, IF Len(rows) < n THEN Len(rows) ELSE n)

\* words.map(word => ({ ..., proficiency_level: word.proficiency_level ?? 1 }))
MapWords(rows) ==
    [i \in 1..Len(rows) |->
        [rows[i] EXCEPT !.proficiency_level = Coalesce(rows[i].proficiency_level)]]

\* execute({ mode = 'general_review' }) of getWordsForPractice
GetWordsForPracticeExecute(order, modeGiven, date) ==
    LET mode == IF modeGiven = Undefined THEN S_general_review ELSE modeGiven
    IN  The({[words |-> MapWords(rows), count |-> Len(rows), mode |-> mode] :
             rows \in {IF mode = S_general_review
                       THEN OrderByDate(order)
                       ELSE OrderByDate(WhereDue(order, date))}})

\* the LIMIT of getRandomWords
SampleSize == 50

\* execute() of getRandomWords: ORDER BY RANDOM() LIMIT 50
GetRandomWordsExecute(order) ==
    The({[words |-> MapWords(rows), count |-> Len(rows)] :
         rows \in {Limit(order, SampleSize)}})

\* execute() of getLeastProficientWord: word is null (the empty sequence
\* here) when the statement returns no row
GetLeastProficientWordExecute(order) ==
    The({[word |-> MapWords(rows)] :
         rows \in {Limit(OrderByLevelThenDate(order), 1)}})

\* Math.min without the test for an empty list: of no numbers it is
\* Infinity, here a number above every level
MinProficiency_Unguarded(rows) ==
    Min({Coalesce(rows[i].proficiency_level) : i \in 1..Len(rows)}
        \cup {MaxLevel + 2})

\* Math.min(...words.map(w => w.proficiency_level ?? 1)), null without words
MinProficiency(rows) ==
    IF Len(rows) = 0 THEN Null
    ELSE Min({Coalesce(rows[i].proficiency_level) : i \in 1..Len(rows)})

\* a filter that keeps every word
FilterLevel_All(rows, level) == rows

\* words.filter(w => (w.proficiency_level ?? 1) === minProficiency)
RECURSIVE FilterLevel(_, _)
FilterLevel(rows, level) ==
    IF rows = <<>> THEN <<>>
    ELSE IF Coalesce(Head(rows).proficiency_level) = level
         THEN <<Head(rows)>> \o FilterLevel(Tail(rows), level)
         ELSE FilterLevel(Tail(rows), level)

\* execute() of getWordsWithLowestProficiency
GetWordsWithLowestProficiencyExecute(order) ==
    The({The({[words |-> MapWords(FilterLevel(rows, minProficiency)),
               count |-> Len(FilterLevel(rows, minProficiency)),
               min_proficiency_level |-> minProficiency] :
              minProficiency \in {MinProficiency(rows)}}) :
         rows \in {OrderByLevelThenDate(order)}})

\* a date script that writes the day after today
UpdateAllDates_Tomorrow(table, date) ==
    {[r EXCEPT !.last_practiced_date = date + 1] : r \in table}

\* UPDATE words SET last_practiced_date = ? (the date script)
UpdateAllDates(table, date) ==
    {[r EXCEPT !.last_practiced_date = date] : r \in table}

----------------------------------------------------------------------------
(* The state machine.  The handlers have no await between their statements, *)
(* so each runs to its end before the next request is taken; `last` holds   *)
(* the call that has returned and not yet been delivered.                   *)

Idle == [op |-> "idle"]

Init ==
    /\ words = {}
    /\ today = 1
    /\ last = Idle

AddNewWord(english, cantonese_jyutping) ==
    /\ last = Idle
    /\ LET run == AddNewWordExecute(words, english, cantonese_jyutping, today)
       IN  /\ words' = run.table
           /\ last' = [op |-> "addNewWord", english |-> english,
                       cantonese_jyutping |-> cantonese_jyutping,
                       before |-> words, threw |-> run.threw, ret |-> run.ret]
    /\ UNCHANGED today

UpdateWordProgress(batch, scan) ==
    /\ last = Idle
    /\ \E run \in {UpdateWordProgressExecute(words, batch, scan, today)} :
           /\ \A r \in run.table : Coalesce(r.proficiency_level) <= MaxLevel
           /\ words' = run.table
           /\ last' = [op |-> "updateWordProgress", batch |-> batch,
                       before |-> words, steps |-> run.steps, ret |-> run.ret]
    /\ UNCHANGED today

RemoveWord(english, scan) ==
    /\ last = Idle
    /\ LET run == RemoveWordExecute(words, english, scan)
       IN  /\ words' = run.table
           /\ last' = [op |-> "removeWord", english |-> english,
                       before |-> words, actualEnglish |-> run.actualEnglish,
                       ret |-> run.ret]
    /\ UNCHANGED today

SeedDb(csv) ==
    /\ last = Idle
    /\ words' = SeedDatabaseFromCSV(csv, today)
    /\ last' = [op |-> "seed-db", csv |-> csv, before |-> words]
    /\ UNCHANGED today

AddNewWords(csv) ==
    /\ last = Idle
    /\ words' = AddNewWordsMain(words, csv, today)
    /\ last' = [op |-> "add-new-words", csv |-> csv, before |-> words]
    /\ UNCHANGED today

GetWordsForPractice(mode, order) ==
    /\ last = Idle
    /\ last' = [op |-> "getWordsForPractice", before |-> words, modeGiven |-> mode,
                ret |-> GetWordsForPracticeExecute(order, mode, today)]
    /\ UNCHANGED <<words, today>>

GetRandomWords(order) ==
    /\ last = Idle
    /\ last' = [op |-> "getRandomWords", before |-> words, ret |-> GetRandomWordsExecute(order)]
    /\ UNCHANGED <<words, today>>

GetLeastProficientWord(order) ==
    /\ last = Idle
    /\ last' = [op |-> "getLeastProficientWord", before |-> words,
                ret |-> GetLeastProficientWordExecute(order)]
    /\ UNCHANGED <<words, today>>

GetWordsWithLowestProficiency(order) ==
    /\ last = Idle
    /\ last' = [op |-> "getWordsWithLowestProficiency", before |-> words,
                ret |-> GetWordsWithLowestProficiencyExecute(order)]
    /\ UNCHANGED <<words, today>>

\* the date script runs
UpdateDates ==
    /\ last = Idle
    /\ words' = UpdateAllDates(words, today)
    /\ last' = [op |-> "update-dates", before |-> words]
    /\ UNCHANGED today

\* midnight (UTC) passes
NextDay ==
    /\ last = Idle
    /\ today < MaxDay
    /\ today' = today + 1
    /\ UNCHANGED <<words, last>>

\* the system clock is set back over midnight
ClockSetBack ==
    /\ last = Idle
    /\ today > 1
    /\ today' = today - 1
    /\ UNCHANGED <<words, last>>

\* the result of the last call is delivered
Deliver ==
    /\ last # Idle
    /\ last' = Idle
    /\ UNCHANGED <<words, today>>

Next ==
    \/ \E e \in KeyPool, c \in TransPool : AddNewWord(e, c)
    \/ \E batch \in Batches, scan \in ScanOrders(words) :
          UpdateWordProgress(batch, scan)
    \/ \E e \in RemovePool, scan \in ScanOrders(words) : RemoveWord(e, scan)
    \/ \E csv \in CsvFiles : SeedDb(csv)
    \/ \E csv \in CsvFiles : AddNewWords(csv)
    \/ \E mode \in Modes, order \in ScanOrders(words) :
          GetWordsForPractice(mode, order)
    \/ \E order \in ScanOrders(words) : GetRandomWords(order)
    \/ \E order \in ScanOrders(words) : GetLeastProficientWord(order)
    \/ \E order \in ScanOrders(words) : GetWordsWithLowestProficiency(order)
    \/ UpdateDates
    \/ NextDay
    \/ Deliver

Spec == Init /\ [][Next]_vars

\* the same program under a system clock that can also be set back
NextClock == Next \/ ClockSetBack

SpecClock == Init /\ [][NextClock]_vars

----------------------------------------------------------------------------
(* The matcher on the tables addNewWord can build: any key and any         *)
(* translation, the empty ones too, are accepted by its schema.            *)

\* findWordInDatabase as updateWordProgress (toolUtils.ts) and removeWord
\* (tools.ts) call it, on the same table in the same scan order
Lookup(searchTerm, scan) ==
    /\ last = Idle
    /\ last' = [op |-> "findWordInDatabase", searchTerm |-> searchTerm,
                scan |-> scan,
                found |-> FindWordInDatabase(scan, searchTerm),
                toolsFound |-> IF IsString(searchTerm)
                               THEN ToolsFindWordInDatabase(scan, searchTerm)
                               ELSE NotFound]
    /\ UNCHANGED <<words, today>>

MatchNext ==
    \/ \E e \in MatchKeys, c \in MatchTrans :
          Cardinality(words) < MaxStored /\ AddNewWord(e, c)
    \/ \E t \in MatchTerms, scan \in ScanOrders(words) : Lookup(t, scan)
    \/ Deliver

SpecMatch == Init /\ [][MatchNext]_vars

----------------------------------------------------------------------------
(* updateWordProgress when a statement of one entry throws.  The statements *)
(* run in autocommit mode on a file that the scripts open too, so any of    *)
(* them can throw (SQLITE_BUSY, SQLITE_IOERR, SQLITE_FULL); the catch of    *)
(* the loop body reports the entry failed and the loop goes on.             *)

\* the calls of one pass of the loop body that reach the database
Statements ==
    {"findWordInDatabase", "getWordStmt.get", "updateStmt.run", "getUpdatedStmt.get"}

\* what the catch of the loop body pushes on failedWords
Caught(table, searchTerm) == Failed(table, searchTerm, "threw")

\* one pass of the loop body in which the call `thrower` throws when reached
ProcessEntryThrowing(table, entry, scan, date, thrower) ==
    LET searchTerm == SearchTermOf(entry)
    IN  IF ~Truthy(searchTerm) \/ ~IsString(searchTerm)
        THEN Failed(table, searchTerm, "invalid")
        ELSE IF thrower = "findWordInDatabase"
        THEN Caught(table, searchTerm)
        ELSE
        The({IF ~Truthy(actualEnglish)
             THEN Failed(table, searchTerm, "not_found")
             ELSE IF thrower = "getWordStmt.get"
             THEN Caught(table, searchTerm)
             ELSE IF RowsOf(table, actualEnglish) = {}
             THEN Failed(table, searchTerm, "retrieval_failed")
             ELSE IF thrower = "updateStmt.run"
             THEN Caught(table, searchTerm)
             ELSE
             LET currentWord == The(RowsOf(table, actualEnglish))
                 currentProficiency == Coalesce(currentWord.proficiency_level)
                 newProficiency == NewProficiency(currentProficiency, entry.success)
             IN  The({IF run.code # "ok"
                      THEN Failed(table, searchTerm, run.code)
                      ELSE Caught(run.table, searchTerm) :
                      run \in {UpdateStmt(table, date, newProficiency,
                                          actualEnglish)}}) :
             actualEnglish \in {FindWordInDatabase(AllWords(table, scan), searchTerm)}})

\* the loop over the batch when the call `thrower` of entry `at` throws
\* (no entry when at = 0)
RECURSIVE ProcessWordsThrowing(_, _, _, _, _, _, _, _)
ProcessWordsThrowing(table, batch, scan, date, i, done, at, thrower) ==
    IF i > Len(batch) THEN done
    ELSE The({ProcessWordsThrowing(step.table, batch, scan, date, i + 1,
                                   [table |-> step.table,
                                    updatedWords |-> done.updatedWords \o step.updated,
                                    failedWords |-> done.failedWords \o step.failed,
                                    steps |-> Append(done.steps, step)],
                                   at, thrower) :
              step \in {IF i = at
                        THEN ProcessEntryThrowing(table, batch[i], scan, date, thrower)
                        ELSE ProcessEntry(table, batch[i], scan, date)}})

\* execute({ words }) when the call `thrower` of entry `at` throws
UpdateWordProgressExecuteThrowing(table, batch, scan, date, at, thrower) ==
    IF Len(batch) = 0
    THEN [table |-> table,
          steps |-> <<>>,
          ret |-> [success |-> FALSE, updatedWords |-> <<>>, failedWords |-> <<>>]]
    ELSE The({[table |-> done.table,
               steps |-> done.steps,
               ret |-> [success |-> Len(done.updatedWords) > 0,
                        updatedWords |-> done.updatedWords,
                        failedWords |-> IF Len(done.failedWords) > 0
                                        THEN done.failedWords
                                        ELSE Undefined]] :
              done \in {ProcessWordsThrowing(table, batch, scan, date, 1,
                                             [table |-> table, updatedWords |-> <<>>,
                                              failedWords |-> <<>>, steps |-> <<>>],
                                             at, thrower)}})

\* the entries execute can be handed: with one field, with an empty field,
\* with both fields empty and with neither field
LooseEntries ==
    {[english |-> <<"a">>, cantonese_jyutping |-> Undefined, success |-> TRUE],
     [english |-> <<>>, cantonese_jyutping |-> <<"x">>, success |-> FALSE],
     [english |-> <<>>, cantonese_jyutping |-> <<>>, success |-> TRUE],
     [english |-> <<>>, cantonese_jyutping |-> Undefined, success |-> TRUE],
     [english |-> Undefined, cantonese_jyutping |-> Undefined, success |-> TRUE]}

LooseBatches == UNION {[1..n -> LooseEntries] : n \in 0..MaxBatch}

UpdateWordProgressThrowing(batch, scan, at, thrower) ==
    /\ last = Idle
    /\ \E run \in {UpdateWordProgressExecuteThrowing(words, batch, scan, today,
                                                     at, thrower)} :
           /\ \A r \in run.table : Coalesce(r.proficiency_level) <= MaxLevel
           /\ words' = run.table
           /\ last' = [op |-> "updateWordProgress", batch |-> batch,
                       before |-> words, steps |-> run.steps, ret |-> run.ret,
                       at |-> at, thrower |-> thrower]
    /\ UNCHANGED today

\* the batches on a store that holds one record at most
BatchNext ==
    \/ AddNewWord(<<"a">>, <<"x">>)
    \/ \E batch \in LooseBatches, scan \in ScanOrders(words) :
          \E at \in 0..Len(batch), thrower \in Statements :
              UpdateWordProgressThrowing(batch, scan, at, thrower)
    \/ NextDay
    \/ Deliver

SpecBatch == Init /\ [][BatchNext]_vars

----------------------------------------------------------------------------
(* Two requests that call updateWordProgress at the same time, statement by *)
(* statement.  The requests of one server share one thread and one          *)
(* connection (getDb, chat/db.ts): a call of execute holds the thread from  *)
(* one await to the next, and the statements of better-sqlite3 return       *)
(* their rows without one.  `last` holds the two calls in flight.           *)

Requests == {1, 2}

\* the entries of the two batches: a success by key, a failure by translation
RaceEntries ==
    {[english |-> <<"a">>, cantonese_jyutping |-> Undefined, success |-> TRUE],
     [english |-> Undefined, cantonese_jyutping |-> <<"x">>, success |-> FALSE]}

RaceBatches == UNION {[1..n -> RaceEntries] : n \in 1..MaxBatch}

\* an await of execute just before the statement `at` of the loop body
Awaits_BeforeUpdate(at) == at = "updateStmt.run"

\* the awaits of execute before the statement `at` of the loop body: none
Awaits(at) == FALSE

\* the number of entries of a batch that record a success
RECURSIVE Successes(_)
Successes(batch) ==
    IF batch = <<>> THEN 0
    ELSE (IF Head(batch).success THEN 1 ELSE 0) + Successes(Tail(batch))

\* the two tool calls arrive
Arrive(batches) ==
    /\ last = Idle
    /\ \A r \in words :
          Coalesce(r.proficiency_level) + Successes(batches[1])
              + Successes(batches[2]) <= MaxLevel
    /\ last' = [op |-> "requests", batch |-> batches, before |-> words,
                i |-> [p \in Requests |-> 1],
                at |-> [p \in Requests |-> "findWordInDatabase"],
                actualEnglish |-> [p \in Requests |-> NotFound],
                currentProficiency |-> [p \in Requests |-> 0],
                updated |-> [p \in Requests |-> 0],
                failed |-> [p \in Requests |-> 0],
                running |-> 0]
    /\ UNCHANGED <<words, today>>

\* request p may run its next statement: the thread is free or p holds it
MayRun(p, at) ==
    /\ last.op = "requests"
    /\ last.running \in {0, p}
    /\ last.at[p] = at

\* who holds the thread when p is about to run statement `at`
Holder(p, at) == IF at = "returned" \/ Awaits(at) THEN 0 ELSE p

\* the entry of p pushed on updatedWords (ok) or on failedWords, and the loop
\* goes to the next entry or returns
NextEntry(p, ok) ==
    LET at == IF last.i[p] = Len(last.batch[p]) THEN "returned"
              ELSE "findWordInDatabase"
    IN  [last EXCEPT !.i[p] = @ + 1,
                     !.at[p] = at,
                     !.updated[p] = IF ok THEN @ + 1 ELSE @,
                     !.failed[p] = IF ok THEN @ ELSE @ + 1,
                     !.running = Holder(p, at)]

\* const actualEnglish = findWordInDatabase(db, searchTerm)
Find(p, scan) ==
    /\ MayRun(p, "findWordInDatabase")
    /\ LET searchTerm == SearchTermOf(last.batch[p][last.i[p]])
           actualEnglish == FindWordInDatabase(AllWords(words, scan), searchTerm)
       IN  last' = IF ~Truthy(searchTerm) \/ ~IsString(searchTerm)
                      \/ ~Truthy(actualEnglish)
                   THEN NextEntry(p, FALSE)
                   ELSE [last EXCEPT !.actualEnglish[p] = actualEnglish,
                                     !.at[p] = "getWordStmt.get",
                                     !.running = Holder(p, "getWordStmt.get")]
    /\ UNCHANGED <<words, today>>

\* const currentWord = getWordStmt.get(actualEnglish)
Get(p) ==
    /\ MayRun(p, "getWordStmt.get")
    /\ LET rows == RowsOf(words, last.actualEnglish[p])
       IN  last' = IF rows = {}
                   THEN NextEntry(p, FALSE)
                   ELSE [last EXCEPT !.currentProficiency[p] =
                                         Coalesce(The(rows).proficiency_level),
                                     !.at[p] = "updateStmt.run",
                                     !.running = Holder(p, "updateStmt.run")]
    /\ UNCHANGED <<words, today>>

\* updateStmt.run(today, newProficiency, actualEnglish)
Update(p) ==
    /\ MayRun(p, "updateStmt.run")
    /\ LET newProficiency == NewProficiency(last.currentProficiency[p],
                                            last.batch[p][last.i[p]].success)
           run == UpdateStmt(words, today, newProficiency, last.actualEnglish[p])
       IN  /\ words' = run.table
           /\ last' = IF run.code # "ok"
                      THEN NextEntry(p, FALSE)
                      ELSE [last EXCEPT !.at[p] = "getUpdatedStmt.get",
                                        !.running = Holder(p, "getUpdatedStmt.get")]
    /\ UNCHANGED today

\* const updatedWord = getUpdatedStmt.get(actualEnglish); updatedWords.push
ReadBack(p) ==
    /\ MayRun(p, "getUpdatedStmt.get")
    /\ last' = NextEntry(p, RowsOf(words, last.actualEnglish[p]) # {})
    /\ UNCHANGED <<words, today>>

\* both calls have returned
AllReturned ==
    last.op = "requests" /\ \A p \in Requests : last.at[p] = "returned"

RaceNext ==
    \/ AddNewWord(<<"a">>, <<"x">>)
    \/ \E batches \in [Requests -> RaceBatches] : Arrive(batches)
    \/ \E p \in Requests, scan \in ScanOrders(words) : Find(p, scan)
    \/ \E p \in Requests : Get(p)
    \/ \E p \in Requests : Update(p)
    \/ \E p \in Requests : ReadBack(p)
    \/ (last.op = "requests" => AllReturned) /\ Deliver
    \/ NextDay

SpecRace == Init /\ [][RaceNext]_vars

----------------------------------------------------------------------------
(* The add-new-words script on files whose rows differ in letter case *)

CsvTwoCases ==
    <<<<"a", ",", "x">>,
      <<"A", ",", "x">>>>
CsvUpperFirst ==
    <<<<"A", " ", ",", "x">>,
      <<"B", ",", "x">>,
      <<"a", ",", "x">>>>
CsvCaseFiles == {CsvTwoCases, CsvUpperFirst, CsvBare}

CsvNext ==
    \/ \E e \in KeyPool, c \in TransPool : AddNewWord(e, c)
    \/ \E csv \in CsvCaseFiles : AddNewWords(csv)
    \/ UpdateDates
    \/ NextDay
    \/ Deliver

SpecCsv == Init /\ [][CsvNext]_vars

----------------------------------------------------------------------------
(* Properties of the store and of updateWordProgress, under Spec *)

\* the level of the record with this key, a NULL level counting as 1
LevelIn(table, english) ==
    Coalesce(The(RowsOf(table, english)).proficiency_level)

\* the table an entry of the delivered batch started from
TableBefore(i) == IF i = 1 THEN last.before ELSE last.steps[i - 1].table

\* C1: in every reachable state, whatever sequence of addNewWord,
\* updateWordProgress, removeWord, seed and add-new-words runs led to it,
\* every record of the table has a proficiency_level that is a number >= 1.
C1_LevelAtLeastOne ==
    \A r \in words : r.proficiency_level # Null /\ r.proficiency_level >= 1

\* a failure was applied to a record at level 1 and left it at level 1
C1_Witness ==
    /\ last.op = "updateWordProgress"
    /\ \E i \in 1..Len(last.steps) :
          /\ ~last.batch[i].success
          /\ last.steps[i].updated # <<>>
          /\ LevelIn(TableBefore(i), last.steps[i].updated[1].english) = 1
          /\ LevelIn(words, last.steps[i].updated[1].english) = 1

\* C2: every entry of a batch that gets past the lookup (the matcher returned
\* a key and the record was read) is applied: with L the record's level
\* before the entry (NULL as 1), the level stored after the entry is L + 1 on
\* success and max(L - 1, 1) on failure, and the level pushed on updatedWords
\* is that same value.  No entry fails for a reason other than an invalid
\* search term or a word that was not found.
C2_LevelStep ==
    last.op = "updateWordProgress" =>
        \A i \in 1..Len(last.steps) :
            LET step == last.steps[i]
            IN  /\ step.failed # <<>> =>
                       step.failed[1].reason \in {"invalid", "not_found"}
                /\ step.updated # <<>> =>
                       LET english == step.updated[1].english
                           L == LevelIn(TableBefore(i), english)
                           expected == IF last.batch[i].success THEN L + 1
                                       ELSE IF L - 1 >= 1 THEN L - 1 ELSE 1
                       IN  /\ The(RowsOf(step.table, english)).proficiency_level
                                  = expected
                           /\ step.updated[1].proficiency_level = expected

\* a batch held a success and a failure that were each applied above level 1
C2_Witness ==
    /\ last.op = "updateWordProgress"
    /\ \E i, j \in 1..Len(last.steps) :
          /\ last.batch[i].success /\ ~last.batch[j].success
          /\ last.steps[i].updated # <<>> /\ last.steps[j].updated # <<>>
          /\ last.steps[i].updated[1].proficiency_level = MaxLevel
          /\ last.steps[j].updated[1].proficiency_level = MaxLevel - 1

\* C3: after an addNewWord call with a key that was not in the table, the
\* call has succeeded and the table holds exactly one record with that key:
\* it has the translation given, proficiency_level 1 and last_practiced_date
\* today.
C3_AddThenLookup ==
    last.op = "addNewWord" /\ RowsOf(last.before, last.english) = {} =>
        /\ last.ret.success /\ ~last.threw
        /\ RowsOf(words, last.english)
               = {Row(last.english, last.cantonese_jyutping, today, 1)}
        /\ last.ret.word
               = <<Row(last.english, last.cantonese_jyutping, today, 1)>>

\* a word was added to a table that held another, on a later day
C3_Witness ==
    /\ last.op = "addNewWord"
    /\ last.ret.success
    /\ last.before # {}
    /\ today = MaxDay
    /\ last.english = <<"B">>

\* C4: an addNewWord call with a key that is in the table returns
\* success = false without throwing and leaves the whole table as it was;
\* and in every reachable state no two records have the same key.
C4_DuplicateKey ==
    /\ last.op = "addNewWord" /\ RowsOf(last.before, last.english) # {} =>
           /\ ~last.ret.success /\ ~last.threw
           /\ last.ret.word = <<>>
           /\ words = last.before
    /\ \A r1, r2 \in words : r1.english = r2.english => r1 = r2

\* a key was added again when its record had another date and level than a
\* new record would get
C4_Witness ==
    /\ last.op = "addNewWord"
    /\ \E r \in RowsOf(last.before, last.english) :
          /\ r.last_practiced_date # today
          /\ r.proficiency_level # 1
          /\ r \in words

\* C5: when two consecutive entries of a batch are applied to the same
\* record, the first with success = true and the second with success = false,
\* the record's level after the second is its level L before the first,
\* for every L >= 1.
C5_SuccessThenFailure ==
    last.op = "updateWordProgress" =>
        \A i \in 1..(Len(last.steps) - 1) :
            /\ last.batch[i].success /\ ~last.batch[i + 1].success
            /\ last.steps[i].updated # <<>> /\ last.steps[i + 1].updated # <<>>
            /\ last.steps[i].updated[1].english
                   = last.steps[i + 1].updated[1].english
            => LevelIn(last.steps[i + 1].table, last.steps[i].updated[1].english)
                   = LevelIn(TableBefore(i), last.steps[i].updated[1].english)

\* a success and then a failure, one found by its key and one by its
\* translation, were applied to one record at the highest level of the model
C5_Witness ==
    /\ last.op = "updateWordProgress"
    /\ Len(last.steps) = 2
    /\ last.batch[1].success /\ ~last.batch[2].success
    /\ last.steps[1].updated # <<>> /\ last.steps[2].updated # <<>>
    /\ last.steps[1].updated[1].english = last.steps[2].updated[1].english
    /\ last.batch[1].english # last.batch[2].english
    /\ LevelIn(last.before, last.steps[1].updated[1].english) = MaxLevel

----------------------------------------------------------------------------
(* Properties of the word matcher, under SpecMatch *)

\* q is k up to letter case, whitespace at the ends, the length of runs of
\* whitespace inside, and whitespace around a slash
SameUpToCaseAndSpacing(q, k) ==
    IsString(q) /\ ToolsNormalized(q) = ToolsNormalized(k)

\* the first of the four rules by which the word matches the search term,
\* 5 when it matches by none
RuleOf(word, searchTerm) ==
    LET n == ToolsNormalized(searchTerm)
        parts == NormalizedParts(word.cantonese_jyutping)
    IN  IF SqlLowerTrimEq(word.english, searchTerm) THEN 1
        ELSE IF SqlLowerTrimEq(word.cantonese_jyutping, searchTerm) THEN 2
        ELSE IF \/ ToolsNormalized(word.english) = n
                \/ ToolsNormalized(word.cantonese_jyutping) = n THEN 3
        ELSE IF \E p \in 1..Len(parts) : parts[p] = n THEN 4
        ELSE 5

Alternatives(cantonese_jyutping) ==
    LET parts == SplitSlashFrom(cantonese_jyutping, 1)
    IN  IF Len(parts) < 2 THEN {}
        ELSE {JsTrim(parts[p]) : p \in 1..Len(parts)} \ {<<>>}

\* C7: for every record whose translation holds alternatives separated by
\* '/', a search for the whole translation and a search for any one of its
\* (non-blank) alternatives return the key of a record; when no other record
\* matches the search term by any rule, it is this record's key.
C7_SlashAlternatives ==
    last.op = "findWordInDatabase" =>
        \A r \in words :
            /\ Alternatives(r.cantonese_jyutping) # {}
            /\ \/ last.searchTerm = r.cantonese_jyutping
               \/ last.searchTerm \in Alternatives(r.cantonese_jyutping)
            => /\ last.found \in {o.english : o \in words}
               /\ (\A o \in words \ {r} : RuleOf(o, last.searchTerm) = 5)
                      => last.found = r.english

\* the search term is one alternative of a translation and nothing else of
\* any record: the record was found by rule 4 alone
C7_Witness ==
    /\ last.op = "findWordInDatabase"
    /\ last.searchTerm = <<"b">>
    /\ \E r \in words :
          /\ r.cantonese_jyutping = <<"a", " ", "/", " ", "b">>
          /\ last.found = r.english
          /\ RuleOf(r, last.searchTerm) = 4
    /\ Cardinality(words) = MaxStored

\* C8 as stated: the record the matcher returns matches the search term by
\* the earliest rule by which any record of the table matches it, whatever
\* the scan order.
C8_RulesInGlobalOrder ==
    last.op = "findWordInDatabase" /\ last.found # NotFound =>
        \A r \in RowsOf(words, last.found), o \in words :
            RuleOf(r, last.searchTerm) <= RuleOf(o, last.searchTerm)

\* C9: a search term that is not a string, is empty or holds only whitespace
\* is not found, whatever the table holds.
C9_BlankNeverResolves ==
    last.op = "findWordInDatabase"
    /\ (~IsString(last.searchTerm) \/ JsTrim(last.searchTerm) = <<>>)
    => last.found = NotFound

\* a blank search term met a table with an empty key and a translation that
\* ends in a slash
C9_Witness ==
    /\ last.op = "findWordInDatabase"
    /\ last.searchTerm = <<" ">>
    /\ last.found = NotFound
    /\ \E r \in words : r.english = <<>>
    /\ \E r \in words : r.cantonese_jyutping = <<"b", "/">>

----------------------------------------------------------------------------
(* removeWord against updateWordProgress, under Spec *)

\* what a handler makes of the matcher's answer: if (!actualEnglish) is
\* taken for '' as for null
Resolved(actualEnglish) ==
    IF Truthy(actualEnglish) THEN actualEnglish ELSE NotFound

\* C10 as stated: removeWord resolves its search term as updateWordProgress
\* would on the same table: there is a scan order under which the matcher of
\* toolUtils.ts returns the record removeWord found, or finds none when
\* removeWord found none.
C10_RemoveUsesSameMatcher ==
    last.op = "removeWord" =>
        \E scan \in ScanOrders(last.before) :
            Resolved(FindWordInDatabase(scan, last.english))
                = Resolved(last.actualEnglish)

----------------------------------------------------------------------------
(* Properties of a batch of updateWordProgress, under Spec *)

\* the keys the matcher can return for the search term of entry i on the
\* table the entry starts from, over the scan orders; a handler takes '' for
\* not found
KeysFoundFor(i) ==
    {Resolved(FindWordInDatabase(scan, SearchTermOf(last.batch[i]))) :
        scan \in ScanOrders(TableBefore(i))} \ {NotFound}

\* what the passes pushed on updatedWords, and on failedWords, in order
RECURSIVE UpdatedOf(_)
UpdatedOf(steps) ==
    IF steps = <<>> THEN <<>> ELSE Head(steps).updated \o UpdatedOf(Tail(steps))
RECURSIVE FailedOf(_)
FailedOf(steps) ==
    IF steps = <<>> THEN <<>> ELSE Head(steps).failed \o FailedOf(Tail(steps))

\* C11: in a batch, an entry with a search term that no record matches is
\* pushed on failedWords with the not-found reason and changes nothing, and
\* the loop goes on: every entry of the batch is processed, and every entry
\* whose search term is found, before or after the failed one, is applied
\* with its level step (L + 1 on success, max(L - 1, 1) on failure) and
\* pushed on updatedWords; the lists returned are the ones the passes built.
C11_PartialFailure ==
    last.op = "updateWordProgress" =>
        /\ Len(last.steps) = Len(last.batch)
        /\ last.ret.updatedWords = UpdatedOf(last.steps)
        /\ FailedOf(last.steps) # <<>> => last.ret.failedWords = FailedOf(last.steps)
        /\ \A i \in 1..Len(last.steps) :
              LET step == last.steps[i]
                  term == SearchTermOf(last.batch[i])
              IN  Truthy(term) /\ IsString(term) =>
                    IF KeysFoundFor(i) = {}
                    THEN /\ step.failed = <<[english |-> term, reason |-> "not_found"]>>
                         /\ step.updated = <<>>
                         /\ step.table = TableBefore(i)
                    ELSE /\ step.failed = <<>>
                         /\ Len(step.updated) = 1
                         /\ step.updated[1].english \in KeysFoundFor(i)
                         /\ step.updated[1].proficiency_level =
                               NewProficiency(LevelIn(TableBefore(i),
                                                      step.updated[1].english),
                                              last.batch[i].success)
                         /\ step.updated[1] \in step.table

\* a batch whose first entry is not found and whose second entry is applied
\* and takes its record from level 2 to level 3
C11_Witness ==
    /\ last.op = "updateWordProgress"
    /\ Len(last.steps) = 2
    /\ last.steps[1].failed # <<>>
    /\ last.steps[1].failed[1].reason = "not_found"
    /\ last.steps[2].updated # <<>>
    /\ LevelIn(last.before, last.steps[2].updated[1].english) = 2
    /\ last.steps[2].updated[1].proficiency_level = 3
    /\ last.ret.success

C13_DateSetToToday ==
    /\ [](last.op = "updateWordProgress" =>
            \A i \in 1..Len(last.steps) :
                last.steps[i].updated # <<>> =>
                    /\ last.steps[i].updated[1].last_practiced_date = today
                    /\ \A r \in RowsOf(last.steps[i].table,
                                       last.steps[i].updated[1].english) :
                           r.last_practiced_date = today)
    /\ [][\A r \in words : \A r2 \in RowsOf(words', r.english) :
              r2.last_practiced_date >= r.last_practiced_date]_vars

\* a failure was applied to a record last practiced on an earlier day
C13_Witness ==
    /\ last.op = "updateWordProgress"
    /\ Len(last.steps) = 1
    /\ ~last.batch[1].success
    /\ last.steps[1].updated # <<>>
    /\ \E r \in RowsOf(last.before, last.steps[1].updated[1].english) :
          r.last_practiced_date < today
    /\ \E r \in RowsOf(words, last.steps[1].updated[1].english) :
          r.last_practiced_date = today

----------------------------------------------------------------------------
(* The translation column, under SpecMatch *)

\* C14 as stated: every record of the table has a translation that is not
\* empty, and an addNewWord call with an empty translation fails and leaves
\* the table as it was.
C14_TranslationNotEmpty ==
    /\ \A r \in words : r.cantonese_jyutping # <<>>
    /\ last.op = "addNewWord" /\ last.cantonese_jyutping = <<>> =>
           ~last.ret.success /\ words = last.before

----------------------------------------------------------------------------
(* Properties of the read queries *)

\* a row as a tool returns it: its level with NULL read as 1
Returned(r) == [r EXCEPT !.proficiency_level = Coalesce(r.proficiency_level)]

\* the rows of a returned list as a set, and whether the list repeats none
Range(list) == {list[i] : i \in 1..Len(list)}
NoRepeat(list) == \A i, j \in 1..Len(list) : list[i] = list[j] => i = j

\* a returned list is in ascending (non-decreasing) last_practiced_date order
AscendingByDate(list) ==
    \A i, j \in 1..Len(list) :
        i < j => list[i].last_practiced_date <= list[j].last_practiced_date

\* C15 (under SpecClock, where dates after today occur): getWordsForPractice
\* in srs_review mode returns exactly the records whose last_practiced_date
\* is on or before today, each once and none with a later date, in ascending
\* last_practiced_date order, and count is the length of the list.
C15_DueForReview ==
    last.op = "getWordsForPractice" /\ last.modeGiven = S_srs_review =>
        /\ Range(last.ret.words)
               = {Returned(r) : r \in {w \in words : w.last_practiced_date <= today}}
        /\ NoRepeat(last.ret.words)
        /\ AscendingByDate(last.ret.words)
        /\ last.ret.count = Len(last.ret.words)
        /\ last.ret.mode = S_srs_review

\* the table holds a word practiced today and a word dated after today, and
\* the query returns the first alone
C15_Witness ==
    /\ last.op = "getWordsForPractice"
    /\ last.modeGiven = S_srs_review
    /\ \E r \in words : r.last_practiced_date > today
    /\ \E r \in words : r.last_practiced_date <= today
    /\ last.ret.count = 1

LowestLevel == Min({Coalesce(r.proficiency_level) : r \in words})
AtLowestLevel == {r \in words : Coalesce(r.proficiency_level) = LowestLevel}

\* C18: on a table with records getLeastProficientWord returns one record of
\* the table: its level is the lowest in the table and its
\* last_practiced_date the oldest among the records at that level; on the
\* empty table it returns word = null.
C18_LeastProficient ==
    last.op = "getLeastProficientWord" =>
        IF words = {} THEN last.ret.word = <<>>
        ELSE /\ Len(last.ret.word) = 1
             /\ last.ret.word[1] \in {Returned(r) : r \in AtLowestLevel}
             /\ \A r \in AtLowestLevel :
                    last.ret.word[1].last_practiced_date <= r.last_practiced_date

\* two words at the same level above 1, practiced on different days: the
\* older is returned
C18_Witness ==
    /\ last.op = "getLeastProficientWord"
    /\ words # {}
    /\ Cardinality(AtLowestLevel) = 2
    /\ LowestLevel > 1
    /\ \E r \in words :
          last.ret.word[1].last_practiced_date < r.last_practiced_date

\* C19: getWordsWithLowestProficiency returns exactly the records at the
\* lowest level of the table, each once, with count the length of the list
\* and min_proficiency_level that lowest level; on the empty table the list
\* is empty and the level null.  Whatever record getLeastProficientWord
\* returns on the same table is in the list.
C19_LowestProficiencySet ==
    last.op = "getWordsWithLowestProficiency" =>
        /\ last.ret.count = Len(last.ret.words)
        /\ NoRepeat(last.ret.words)
        /\ IF words = {}
           THEN last.ret.words = <<>> /\ last.ret.min_proficiency_level = Null
           ELSE /\ Range(last.ret.words) = {Returned(r) : r \in AtLowestLevel}
                /\ last.ret.min_proficiency_level = LowestLevel
                /\ \A order \in ScanOrders(words) :
                       GetLeastProficientWordExecute(order).word[1]
                           \in Range(last.ret.words)

\* two words at different levels: the list holds the lower one alone, at a
\* level above 1
C19_Witness ==
    /\ last.op = "getWordsWithLowestProficiency"
    /\ Cardinality(words) = 2
    /\ last.ret.count = 1
    /\ last.ret.min_proficiency_level = 2

\* C20: on the empty table every read query returns an empty result:
\* getWordsForPractice (both modes), getRandomWords and
\* getWordsWithLowestProficiency an empty list with count 0 (and a null
\* min_proficiency_level), getLeastProficientWord word = null.  None of them
\* has a failing path on an empty table.
C20_EmptyStore ==
    words = {} =>
        /\ last.op \in {"getWordsForPractice", "getRandomWords"} =>
               last.ret.words = <<>> /\ last.ret.count = 0
        /\ last.op = "getWordsWithLowestProficiency" =>
               /\ last.ret.words = <<>> /\ last.ret.count = 0
               /\ last.ret.min_proficiency_level = Null
        /\ last.op = "getLeastProficientWord" => last.ret.word = <<>>

\* the lowest-proficiency query has run on the empty table, on a day after
\* the first
C20_Witness ==
    /\ words = {}
    /\ last.op = "getWordsWithLowestProficiency"
    /\ today = MaxDay

----------------------------------------------------------------------------
(* Properties of one batch, entry by entry, under SpecBatch *)

\* the entry gives neither field: both are missing or empty
NeitherField(entry) ==
    ~Truthy(entry.english) /\ ~Truthy(entry.cantonese_jyutping)

\* C21: an entry of a batch that gives neither english nor cantonese_jyutping
\* (each missing or empty) is pushed on failedWords as invalid before any
\* statement runs for it, whichever statement was about to throw: the table
\* after the entry is the table before it, nothing is pushed on updatedWords,
\* and the loop goes on to the end of the batch.
C21_InvalidEntryRejected ==
    last.op = "updateWordProgress" =>
        /\ Len(last.steps) = Len(last.batch)
        /\ \A i \in 1..Len(last.batch) :
              NeitherField(last.batch[i]) =>
                  /\ last.steps[i].table = TableBefore(i)
                  /\ last.steps[i].updated = <<>>
                  /\ Len(last.steps[i].failed) = 1
                  /\ last.steps[i].failed[1].reason = "invalid"

\* a batch whose first entry gives two empty strings and is rejected, and
\* whose second entry is applied
C21_Witness ==
    /\ last.op = "updateWordProgress"
    /\ Len(last.batch) = 2
    /\ last.batch[1].english = <<>>
    /\ last.batch[1].cantonese_jyutping = <<>>
    /\ last.steps[1].failed # <<>>
    /\ last.steps[1].failed[1].reason = "invalid"
    /\ last.steps[2].updated # <<>>
    /\ last.steps[2].table # last.before

----------------------------------------------------------------------------
(* Frame properties of the handlers, under Spec *)

\* C22: when removeWord takes its search term as found, the table loses the
\* one record with the key the matcher returned and keeps every other record
\* as it was, the call returns success with that record's english and
\* cantonese_jyutping, and a read of the table by that key finds no row;
\* when it takes the search term as not found, it returns success = false
\* and the table is as before.
C22_RemoveExactlyOne ==
    last.op = "removeWord" =>
        IF Resolved(last.actualEnglish) # NotFound
        THEN /\ \E r \in last.before :
                   /\ r.english = last.actualEnglish
                   /\ words = last.before \ {r}
                   /\ last.ret.removedWord =
                          <<[english |-> r.english,
                             cantonese_jyutping |-> r.cantonese_jyutping]>>
             /\ Cardinality(words) = Cardinality(last.before) - 1
             /\ last.ret.success
             /\ RowsOf(words, last.actualEnglish) = {}
        ELSE /\ ~last.ret.success
             /\ last.ret.removedWord = <<>>
             /\ words = last.before

\* a record removed by its translation from a table of two records
C22_Witness ==
    /\ last.op = "removeWord"
    /\ last.ret.success
    /\ last.english # last.actualEnglish
    /\ Cardinality(last.before) = 2
    /\ Cardinality(words) = 1

\* the calls that only read the table
ReadQueries ==
    {"getWordsForPractice", "getRandomWords", "getLeastProficientWord",
     "getWordsWithLowestProficiency"}

\* english and cantonese_jyutping of the records of a table
KeysAndTranslations(table) ==
    {[english |-> r.english, cantonese_jyutping |-> r.cantonese_jyutping] :
        r \in table}

\* C23: a batch of updateWordProgress leaves the table with the same keys,
\* each with the translation it had, and with as many records as before; a
\* record that the matcher returns for no entry of the batch, in any scan
\* order, is in the table exactly as it was (so only last_practiced_date and
\* proficiency_level of matched records can differ).  After a read query
\* the table is the one the query started from.
C23_UpdateFrame ==
    /\ last.op = "updateWordProgress" =>
          /\ KeysAndTranslations(words) = KeysAndTranslations(last.before)
          /\ Cardinality(words) = Cardinality(last.before)
          /\ \A r \in last.before :
                (\A i \in 1..Len(last.batch) : r.english \notin KeysFoundFor(i))
                    => r \in words
    /\ last.op \in ReadQueries => words = last.before

\* a batch that changed one record of two and left the other, and whose
\* record has a new level and a new date
C23_Witness ==
    /\ last.op = "updateWordProgress"
    /\ Cardinality(last.before) = 2
    /\ Cardinality(words \cap last.before) = 1
    /\ \E r \in last.before, u \in words :
          /\ r.english = u.english
          /\ r.proficiency_level # u.proficiency_level
          /\ r.last_practiced_date # u.last_practiced_date

----------------------------------------------------------------------------
(* Two calls of updateWordProgress in flight, under SpecRace *)

\* the statements of an entry between the read of its level and its push
MidEntry == {"updateStmt.run", "getUpdatedStmt.get"}

\* the table after the batches of `first` and then of the other request,
\* each run from its first statement to its return, for some scan orders
SerialTables(first) ==
    LET other == The(Requests \ {first})
    IN  UNION {{UpdateWordProgressExecute(mid, last.batch[other], s2, today).table :
                   s2 \in ScanOrders(mid)} :
               mid \in {UpdateWordProgressExecute(last.before, last.batch[first],
                                                  s1, today).table :
                           s1 \in ScanOrders(last.before)}}

\* C24: with two batches of updateWordProgress in flight at once, a request
\* that has read the level of a record writes the new level before the other
\* request runs a statement (the two are never both between the read and the
\* push of an entry); when both have returned the table is the one that the
\* two batches leave when run one after the other, in one of the two
\* orders; and when every entry of both batches records a success for a
\* record at level L, the record ends at L plus the number of entries (L + 2
\* for two batches of one entry).
C24_NoLostUpdate ==
    last.op = "requests" =>
        /\ ~(\A p \in Requests : last.at[p] \in MidEntry)
        /\ AllReturned =>
              /\ \E first \in Requests : words \in SerialTables(first)
              /\ (\A p \in Requests :
                     \A k \in 1..Len(last.batch[p]) : last.batch[p][k].success)
                    => \A r \in last.before :
                          LevelIn(words, r.english) =
                              Coalesce(r.proficiency_level)
                                  + Len(last.batch[1]) + Len(last.batch[2])

\* both requests record one success for the record of key a, both have
\* run their statements while the other was in flight, and the record is
\* two levels up
C24_Witness ==
    /\ AllReturned
    /\ \A p \in Requests :
          /\ Len(last.batch[p]) = 1
          /\ last.batch[p][1].success
          /\ last.updated[p] = 1
    /\ last.before # {}
    /\ \A r \in last.before : LevelIn(words, r.english) = r.proficiency_level + 2

----------------------------------------------------------------------------
(* The matcher on a record's own key, under SpecMatch *)

\* C25 as stated: for every record of the table, the matcher of
\* updateWordProgress and the matcher of removeWord, given exactly the
\* record's english as search term, return that record's english, so that
\* the handlers update and remove the record itself.
C25_OwnKeyResolves ==
    (/\ last.op = "findWordInDatabase"
     /\ \E r \in words : r.english = last.searchTerm)
        => /\ last.found = last.searchTerm
           /\ Resolved(last.toolsFound) = last.searchTerm

----------------------------------------------------------------------------
(* The lists a batch returns, under SpecBatch *)

\* C26: for a batch of n >= 1 entries, every pass of the loop pushes its
\* entry on exactly one of updatedWords and failedWords (also when a
\* statement of the entry throws), the lists returned are the pushes of the
\* passes in order (failedWords is undefined when nothing was pushed on
\* it), and so their lengths add up to n.
C26_OneListPerEntry ==
    (last.op = "updateWordProgress" /\ Len(last.batch) > 0) =>
        /\ Len(last.steps) = Len(last.batch)
        /\ \A i \in 1..Len(last.steps) :
              Len(last.steps[i].updated) + Len(last.steps[i].failed) = 1
        /\ last.ret.updatedWords = UpdatedOf(last.steps)
        /\ IF FailedOf(last.steps) = <<>>
           THEN /\ last.ret.failedWords = Undefined
                /\ Len(last.ret.updatedWords) = Len(last.batch)
           ELSE /\ last.ret.failedWords = FailedOf(last.steps)
                /\ Len(last.ret.updatedWords) + Len(last.ret.failedWords)
                       = Len(last.batch)

\* a batch of two entries, one pushed on each list, the failed one because
\* a statement threw
C26_Witness ==
    /\ last.op = "updateWordProgress"
    /\ Len(last.batch) = 2
    /\ Len(last.ret.updatedWords) = 1
    /\ FailedOf(last.steps) # <<>>
    /\ Len(last.ret.failedWords) = 1
    /\ last.ret.failedWords[1].reason = "threw"

----------------------------------------------------------------------------
(* Entries of one batch that meet in one record, under Spec *)

\* entry i of the delivered batch was applied to the record with key k
AppliedTo(k, i) ==
    /\ last.steps[i].updated # <<>>
    /\ last.steps[i].updated[1].english = k

\* the level step folded over the entries 1..i applied to the record with
\* key k, from the level the record had when the batch started
RECURSIVE LevelAfter(_, _)
LevelAfter(k, i) ==
    IF i = 0 THEN LevelIn(last.before, k)
    ELSE IF AppliedTo(k, i)
         THEN NewProficiency(LevelAfter(k, i - 1), last.batch[i].success)
         ELSE LevelAfter(k, i - 1)

\* C27: the entries of a batch run in the order given, each on the table the
\* one before it left.  For every record: each entry whose search term the
\* matcher resolves to it alone (by key or by translation) is applied to it,
\* each applied entry reports the level step folded over the applied
\* entries up to itself, the record ends at the fold over all of them, and
\* updatedWords lists the record once for each of them.
C27_FoldInOrder ==
    last.op = "updateWordProgress" =>
        \A r \in last.before :
            LET k == r.english
                n == Len(last.batch)
            IN  /\ \A i \in 1..n :
                      /\ KeysFoundFor(i) = {k} => AppliedTo(k, i)
                      /\ AppliedTo(k, i) =>
                            /\ last.steps[i].updated[1].proficiency_level
                                   = LevelAfter(k, i)
                            /\ LevelIn(last.steps[i].table, k) = LevelAfter(k, i)
                /\ LevelIn(words, k) = LevelAfter(k, n)
                /\ Cardinality({j \in 1..Len(last.ret.updatedWords) :
                                   last.ret.updatedWords[j].english = k})
                       = Cardinality({i \in 1..n : AppliedTo(k, i)})

\* a batch that reaches the record a once by its key and once by its
\* translation, both with success: two levels up, twice in updatedWords
C27_Witness ==
    /\ last.op = "updateWordProgress"
    /\ Len(last.batch) = 2
    /\ last.batch[1].english = <<"a">>
    /\ last.batch[2].cantonese_jyutping = <<"x">>
    /\ AppliedTo(<<"a">>, 1)
    /\ AppliedTo(<<"a">>, 2)
    /\ LevelIn(words, <<"a">>) = LevelIn(last.before, <<"a">>) + 2
    /\ Len(last.ret.updatedWords) = 2

----------------------------------------------------------------------------
(* Dates under a clock that only goes forward, under Spec *)

\* C28: under Spec (the clock never goes back) every state reached through
\* addNewWord, updateWordProgress, removeWord, the seed script, the
\* add-new-words script and the date script has every last_practiced_date
\* on or before today; so, in whatever order the rows are met,
\* getWordsForPractice returns in srs_review mode the same set of records
\* as in general_review mode, and an srs_review call just returned holds
\* every record of the table.
C28_DatesNotAfterToday ==
    /\ \A r \in words : r.last_practiced_date <= today
    /\ \A order \in ScanOrders(words) :
          Range(GetWordsForPracticeExecute(order, S_srs_review, today).words)
              = Range(GetWordsForPracticeExecute(order, S_general_review,
                                                 today).words)
    /\ (last.op = "getWordsForPractice" /\ last.modeGiven = S_srs_review)
          => Range(last.ret.words) = {Returned(r) : r \in words}

\* on day 2 the table holds a record dated day 1 and a record dated day 2,
\* and the srs_review query has returned both
C28_Witness ==
    /\ last.op = "getWordsForPractice"
    /\ last.modeGiven = S_srs_review
    /\ today = 2
    /\ \E r \in words : r.last_practiced_date = 1
    /\ \E r \in words : r.last_practiced_date = 2
    /\ last.ret.count = 2

----------------------------------------------------------------------------
(* Entries reported failed, under SpecBatch *)

\* C29 as stated: whenever a pass of the loop pushes its entry on
\* failedWords, for whatever reason (invalid, not found, or a statement of
\* the entry threw, the read-back after the UPDATE included), the table
\* after the pass is the table before it.
C29_FailedLeavesStore ==
    last.op = "updateWordProgress" =>
        \A i \in 1..Len(last.steps) :
            last.steps[i].failed # <<>> => last.steps[i].table = TableBefore(i)

----------------------------------------------------------------------------
(* The add-new-words script, under SpecCsv *)

\* two keys are the same text up to letter case and surrounding whitespace
SameIgnoringCase(k1, k2) == JsTrim(ToLowerCase(k1)) = JsTrim(ToLowerCase(k2))

\* no two records of the table have keys equal ignoring case
NoCaseTwins(table) ==
    \A r1, r2 \in table : SameIgnoringCase(r1.english, r2.english) => r1 = r2

\* C30 as stated: after a run of add-new-words every record of the table
\* before the run is in the table unchanged; every record added has level 1
\* and today's date and has no record of the table before the run with the
\* same english ignoring case and surrounding whitespace; and rows added
\* earlier in the run count too, so that a table without two keys equal
\* ignoring case before the run has none after it.
C30_AddNewWordsDedup ==
    last.op = "add-new-words" =>
        /\ last.before \subseteq words
        /\ \A r \in words \ last.before :
              /\ r.proficiency_level = 1
              /\ r.last_practiced_date = today
              /\ \A w \in last.before : ~SameIgnoringCase(w.english, r.english)
        /\ NoCaseTwins(last.before) => NoCaseTwins(words)

====
